---- MODULE Spec2Model ----
(***************************************************************************)
(* A model of scripts/xamarin.py: the icon pipeline that recolours the     *)
(* SVG icons and rasterises them for iOS and Android.                      *)
(*                                                                         *)
(* Text (colour arguments, file names, paths, file contents) is modelled   *)
(* as a sequence of one-character strings, so that startswith, replace,    *)
(* basename, the "in" test and sed's substitution are computed on          *)
(* characters as the code computes them.                                   *)
(***************************************************************************)
EXTENDS Integers, Sequences, FiniteSets, TLC

(***************************************************************************)
(* Bounds of the model.                                                    *)
(***************************************************************************)
\* the longest run of hexadecimal digits tried after a "#"
MaxHexLen == 6
\* the number of chunks a file content is assembled from
MaxChunks == 3
\* the number of files of the source svg/ tree
MaxIcons == 2
\* the number of runs of the pipeline in one behaviour
MaxRuns == 2

(***************************************************************************)
(* Text helpers: Python's str methods and os.path.basename.                *)
(***************************************************************************)
\* s.startswith(p)
StartsWith(s, p) ==
    /\ Len(p) <= Len(s)
    /\ SubSeq(s, 1, Len(p)) = p

\* s.endswith(p); also find's -name "*<p>" on a file name
EndsWith(s, p) ==
    /\ Len(p) <= Len(s)
    /\ SubSeq(s, Len(s) - Len(p) + 1, Len(s)) = p

\* s[a:b] with 0 <= a, b: Python clamps both ends to the length
Slice(s, a, b) ==
    LET lo == IF a > Len(s) THEN Len(s) ELSE a
        hi == IF b > Len(s) THEN Len(s) ELSE b
    IN  SubSeq(s, lo + 1, hi)

\* p occurs in s at position i
OccursAt(s, p, i) ==
    /\ i >= 1
    /\ i + Len(p) - 1 <= Len(s)
    /\ SubSeq(s, i, i + Len(p) - 1) = p

\* p in s
Contains(s, p) == \E i \in 1..(Len(s) + 1) : OccursAt(s, p, i)

\* the scan shared by str.replace(p, r) and sed's s/p/r/g for a literal,
\* non-empty p: left to right, every non-overlapping occurrence
RECURSIVE ReplaceFrom(_, _, _, _)
ReplaceFrom(s, p, r, i) ==
    IF i > Len(s) THEN << >>
    ELSE IF OccursAt(s, p, i)
         THEN r \o ReplaceFrom(s, p, r, i + Len(p))
         ELSE << s[i] >> \o ReplaceFrom(s, p, r, i + 1)

\* s.replace(p, r)
Replace(s, p, r) == ReplaceFrom(s, p, r, 1)

\* the positions of "/" in a path
SlashPositions(p) == { i \in 1..Len(p) : p[i] = "/" }

\* os.path.basename(p): what follows the last "/"
Basename(p) ==
    IF SlashPositions(p) = {} THEN p
    ELSE LET last == CHOOSE i \in SlashPositions(p) :
                         \A j \in SlashPositions(p) : j <= i
         IN  SubSeq(p, last + 1, Len(p))

\* os.path.join(a, b) for a relative b
Join(a, b) == a \o << "/" >> \o b

(***************************************************************************)
(* Hexadecimal: int(s, 16) and "%06X" % n.                                 *)
(***************************************************************************)
HexUpper == << "0", "1", "2", "3", "4", "5", "6", "7",
               "8", "9", "A", "B", "C", "D", "E", "F" >>

HexLower == << "0", "1", "2", "3", "4", "5", "6", "7",
               "8", "9", "a", "b", "c", "d", "e", "f" >>

IsHexDigit(c) == \E k \in 1..16 : HexUpper[k] = c \/ HexLower[k] = c

HexVal(c) == (CHOOSE k \in 1..16 : HexUpper[k] = c \/ HexLower[k] = c) - 1

\* whether int(s, 16) parses (no sign, prefix, blank or underscore is in
\* the alphabet of the model)
IsHex(s) == Len(s) > 0 /\ \A i \in 1..Len(s) : IsHexDigit(s[i])

\* int(s, 16) of a string that parses
RECURSIVE HexInt(_)
HexInt(s) ==
    IF Len(s) = 0 THEN 0
    ELSE (16 * HexInt(SubSeq(s, 1, Len(s) - 1))) + HexVal(s[Len(s)])

\* a ^ b on non-negative integers
RECURSIVE Xor(_, _)
Xor(a, b) ==
    IF a = 0 /\ b = 0 THEN 0
    ELSE (((a % 2) + (b % 2)) % 2) + (2 * Xor(a \div 2, b \div 2))

\* "%X" % n
RECURSIVE UpperHex(_)
UpperHex(n) ==
    IF n < 16 THEN << HexUpper[n + 1] >>
    ELSE UpperHex(n \div 16) \o << HexUpper[(n % 16) + 1] >>

\* zero padding on the left up to width w
RECURSIVE ZeroPad(_, _)
ZeroPad(s, w) == IF Len(s) >= w THEN s ELSE ZeroPad(<< "0" >> \o s, w)

\* "%06X" % n
Format06X(n) == ZeroPad(UpperHex(n), 6)

(***************************************************************************)
(* The colour functions.  A call returns a record: ok with the value, or   *)
(* the exception it raises.                                                *)
(***************************************************************************)
Return(v) == [ok |-> TRUE, val |-> v, exc |-> "none"]

Raise(e) == [ok |-> FALSE, val |-> << >>, exc |-> e]

Black == << "b", "l", "a", "c", "k" >>

Red == << "r", "e", "d" >>

Gold == << "g", "o", "l", "d" >>

White == << "w", "h", "i", "t", "e" >>

\* a name matplotlib does not know
Nope == << "n", "o", "p", "e" >>

ColorNames == { Black, Red, Gold, White, Nope }

\* matplotlib.colors.cnames, the entries of the names above (every entry of
\* the table is "#" and six upper-case hexadecimal digits)
cnames ==
    (Black :> << "#", "0", "0", "0", "0", "0", "0" >>)
    @@ (Red :> << "#", "F", "F", "0", "0", "0", "0" >>)
    @@ (Gold :> << "#", "F", "F", "D", "7", "0", "0" >>)
    @@ (White :> << "#", "F", "F", "F", "F", "F", "F" >>)

\* parse_color without the check of the name
parse_color_unchecked(color) ==
    IF StartsWith(color, << "#" >>) \/ color \notin DOMAIN cnames
    THEN Return(color)
    ELSE Return(cnames[color])

parse_color(color) ==
    IF StartsWith(color, << "#" >>) THEN Return(color)
    ELSE IF color \notin DOMAIN cnames THEN Raise("GenerationError")
    ELSE Return(cnames[color])

\* get_complementary_color formatting with "%06X" alone, without the "#"
get_complementary_color_no_hash(color) ==
    LET stripped == Slice(color, 1, Len(color))
    IN  IF ~IsHex(stripped) THEN Raise("ValueError")
        ELSE Return(Format06X(Xor(16777215, HexInt(stripped))))

get_complementary_color(color) ==
    LET stripped == Slice(color, 1, Len(color))
    IN  IF ~IsHex(stripped) THEN Raise("ValueError")
        ELSE Return(<< "#" >> \o Format06X(Xor(16777215, HexInt(stripped))))

color_too_bright(color) ==
    LET parsed == parse_color(color)
        color_hex == Slice(parsed.val, 1, Len(parsed.val))
        r_txt == Slice(color_hex, 0, 2)
        b_txt == Slice(color_hex, 2, 4)
        g_txt == Slice(color_hex, 4, Len(color_hex))
        c_r == HexInt(r_txt)
        c_b == HexInt(b_txt)
        c_g == HexInt(g_txt)
    IN  IF ~parsed.ok THEN parsed
        ELSE IF ~(IsHex(r_txt) /\ IsHex(b_txt) /\ IsHex(g_txt))
             THEN Raise("ValueError")
        \* brightness / 1000 > 155
        ELSE Return((c_r * 299) + (c_g * 587) + (c_b * 114) > 155000)

(***************************************************************************)
(* Fixed text of the script.                                               *)
(***************************************************************************)
DotSvg == << ".", "s", "v", "g" >>

DotPng == << ".", "p", "n", "g" >>

At2x == << "@", "2", "x" >>

At3x == << "@", "3", "x" >>

SvgFilled == << "s", "v", "g", "/", "f", "i", "l", "l", "e", "d" >>

FilledPrefix == << "f", "i", "l", "l", "e", "d", "_" >>

FillEq == << "f", "i", "l", "l", "=" >>

StrokeEq == << "s", "t", "r", "o", "k", "e", "=" >>

Quoted(t) == << "\"" >> \o t \o << "\"" >>

\* get_root_directory(): where the repository is checked out; a checkout
\* whose own path holds "svg/filled" is not among the cases tried
Root == << "/", "r" >>

\* get_xamarin_directory()
XamarinDir == Join(Root, << "x", "a", "m", "a", "r", "i", "n" >>)

\* os.path.join(xamarin, "svg")
SvgDir == Join(XamarinDir, << "s", "v", "g" >>)

(***************************************************************************)
(* The source tree svg/: the files tried, by their path under svg/, and    *)
(* the text of each.                                                       *)
(***************************************************************************)
FilledStar == << "f", "i", "l", "l", "e", "d", "/", "s", "t", "a", "r" >> \o DotSvg

OutlineStar == << "o", "u", "t", "l", "i", "n", "e", "/", "s", "t", "a", "r" >> \o DotSvg

\* a file of svg/ itself whose name starts with "filled"
FilledDash == << "f", "i", "l", "l", "e", "d", "-", "x" >> \o DotSvg

\* ".svg" twice in the file name
DoubleExt == << "a" >> \o DotSvg \o DotSvg

\* not an SVG
Notes == << "n", ".", "t", "x", "t" >>

SourcePaths == { FilledStar, OutlineStar, FilledDash, DoubleExt, Notes }

SourceText(p) ==
    IF p = FilledStar THEN FillEq \o Quoted(Black)
    ELSE IF p = OutlineStar THEN StrokeEq \o Quoted(Black)
    ELSE IF p = FilledDash
         THEN FillEq \o Quoted(Black) \o << " " >> \o StrokeEq \o Quoted(Black)
    ELSE IF p = DoubleExt THEN FillEq \o Quoted(Red)
    ELSE FillEq \o Quoted(Black)

\* a directory: whether it exists, and its files (path under it -> text)
NoDir == [exists |-> FALSE, files |-> << >>]

SourceDir(paths) == [exists |-> TRUE, files |-> [p \in paths |-> SourceText(p)]]

SourceDirs ==
    { NoDir } \cup
    { SourceDir(ps) : ps \in { q \in SUBSET SourcePaths : Cardinality(q) <= MaxIcons } }

\* the command-line arguments tried: fill_color, stroke_color
HashShort == << "#", "1", "2" >>

HashGreen == << "#", "0", "0", "f", "f", "0", "0" >>

RunArgs ==
    { << Red, Gold >>, << HashGreen, Black >>, << Nope, Black >>,
      << Red, Nope >>, << HashShort, Black >> }

(***************************************************************************)
(* The output tree xamarin/: whether it exists, its directories, the       *)
(* files of xamarin/svg (path -> text and the run that copied the file)    *)
(* and the PNG files (directory and name -> the SVG rasterised, the size   *)
(* and the run that wrote the file).                                       *)
(***************************************************************************)
Absent == [exists |-> FALSE, dirs |-> {}, svg |-> << >>, png |-> << >>]

\* get_xamarin_directory(create=True): the directory is made when missing
get_xamarin_directory(x) ==
    IF x.exists THEN x ELSE [Absent EXCEPT !.exists = TRUE]

\* cleanup() that leaves the directory in place
cleanup_keep(x) == x

\* cleanup(): rm -rf xamarin
cleanup(x) == IF x.exists THEN Absent ELSE x

\* copy_svg_to_xamarin(): cp -r svg xamarin, of a source that exists
copy_svg_to_xamarin(x, src, run) ==
    LET y == get_xamarin_directory(x)
    IN  [y EXCEPT
            !.dirs = @ \cup { "svg" },
            !.svg = [p \in (DOMAIN src.files) \cup (DOMAIN y.svg) |->
                        IF p \in DOMAIN src.files
                        THEN [text |-> src.files[p], run |-> run]
                        ELSE y.svg[p]]]

\* find -name "*.svg" on a path under the searched directory
IsSvgName(p) == EndsWith(Basename(p), DotSvg)

\* sed without the g flag: the first occurrence only
RECURSIVE ReplaceFirstFrom(_, _, _, _)
ReplaceFirstFrom(s, p, r, i) ==
    IF i > Len(s) THEN << >>
    ELSE IF OccursAt(s, p, i)
         THEN r \o SubSeq(s, i + Len(p), Len(s))
         ELSE << s[i] >> \o ReplaceFirstFrom(s, p, r, i + 1)

sed_black_first(text, attr, hex) ==
    ReplaceFirstFrom(text, attr \o Quoted(Black), attr \o Quoted(hex), 1)

\* sed -i 's/<attr>"black"/<attr>"<hex>"/g' on the text of one file; the
\* texts tried hold no line break and the colours none of & \ / which sed
\* reads specially in a replacement
sed_black(text, attr, hex) ==
    ReplaceFrom(text, attr \o Quoted(Black), attr \o Quoted(hex), 1)

\* replace_color_on_svgs(): the two find ... -exec sed passes
replace_color_on_svgs(x, fill_hex, stroke_hex) ==
    LET y == get_xamarin_directory(x)
    IN  [y EXCEPT
            !.svg = [p \in DOMAIN @ |->
                        IF IsSvgName(p)
                        THEN [@[p] EXCEPT !.text =
                                sed_black(sed_black(@, FillEq, fill_hex),
                                          StrokeEq, stroke_hex)]
                        ELSE @[p]]]

\* find(svg, "-name", "*.svg"): the paths found, in no particular order
find_svg(x) == { Join(SvgDir, p) : p \in { q \in DOMAIN x.svg : IsSvgName(q) } }

\* filename.replace(".svg", "").replace("-", "_")
no_ext_filename(svg_file) ==
    Replace(Replace(Basename(svg_file), DotSvg, << >>), << "-" >>, << "_" >>)

\* the name create_ios_images gives the icon
ios_name(svg_file) ==
    IF Contains(svg_file, SvgFilled)
    THEN FilledPrefix \o no_ext_filename(svg_file)
    ELSE no_ext_filename(svg_file)

\* the name create_android_images gives the icon
android_name(svg_file) == no_ext_filename(svg_file)

Target(width, height, dir, name) ==
    [w |-> width, h |-> height, out |-> [dir |-> dir, name |-> name]]

\* the inkscape calls of create_ios_images for one file, in order
ios_targets(svg_file) ==
    << Target(24, 24, "ios", ios_name(svg_file) \o DotPng),
       Target(48, 48, "ios", ios_name(svg_file) \o At2x \o DotPng),
       Target(72, 72, "ios", ios_name(svg_file) \o At3x \o DotPng) >>

\* the inkscape calls of create_android_images for one file, in order
android_targets(svg_file) ==
    << Target(60, 60, "android/drawable", android_name(svg_file) \o DotPng),
       Target(48, 48, "android/drawable-hdpi", android_name(svg_file) \o DotPng),
       Target(64, 64, "android/drawable-xhdpi", android_name(svg_file) \o DotPng),
       Target(96, 96, "android/drawable-xxhdpi", android_name(svg_file) \o DotPng),
       Target(128, 128, "android/drawable-xxxhdpi", android_name(svg_file) \o DotPng) >>

AndroidDirs ==
    { "android", "android/drawable", "android/drawable-hdpi",
      "android/drawable-xhdpi", "android/drawable-xxhdpi",
      "android/drawable-xxxhdpi" }

\* inkscape -w W -h H svg_file -o png, exiting 0: the PNG is (over)written
inkscape(x, svg_file, t, run) ==
    [x EXCEPT !.png =
        (t.out :> [src |-> svg_file, w |-> t.w, h |-> t.h, run |-> run]) @@ @]

\* a command whose exit status is not looked at
after_command_ignore(ok, next) == next

\* sh raises ErrorReturnCode when the command exits non-zero: the statement
\* after the call is reached only when it exits 0
after_command(ok, next) == IF ok THEN next ELSE "failed"

\* generate_images with the Android export before the iOS export
after_step_android_first(s) ==
    CASE s = "start" -> "resolve_fill"
      [] s = "resolve_fill" -> "resolve_stroke"
      [] s = "resolve_stroke" -> "report"
      [] s = "report" -> "cleanup"
      [] s = "cleanup" -> "copy"
      [] s = "copy" -> "recolor"
      [] s = "recolor" -> "android"
      [] s = "android" -> "ios"
      [] s = "ios" -> "done"

\* generate_images resolving the stroke colour only after cleanup()
after_step_late_resolve(s) ==
    CASE s = "start" -> "resolve_fill"
      [] s = "resolve_fill" -> "cleanup"
      [] s = "cleanup" -> "resolve_stroke"
      [] s = "resolve_stroke" -> "report"
      [] s = "report" -> "copy"
      [] s = "copy" -> "recolor"
      [] s = "recolor" -> "ios"
      [] s = "ios" -> "android"
      [] s = "android" -> "done"

\* generate_images: the statement that follows each step
after_step(s) ==
    CASE s = "start" -> "resolve_fill"
      [] s = "resolve_fill" -> "resolve_stroke"
      [] s = "resolve_stroke" -> "report"
      [] s = "report" -> "cleanup"
      [] s = "cleanup" -> "copy"
      [] s = "copy" -> "recolor"
      [] s = "recolor" -> "ios"
      [] s = "ios" -> "android"
      [] s = "android" -> "done"

(***************************************************************************)
(* State.                                                                  *)
(***************************************************************************)
VARIABLES
    pc,                \* the statement of generate_images about to run
    runNo,             \* the number of runs started
    fill_color,        \* the arguments of the run
    stroke_color,
    fill_color_hex,    \* locals of generate_images
    stroke_color_hex,
    fg_color,
    comp_color,
    error,             \* the exception that ended the run
    source,            \* the directory svg/ of the repository
    xamarin,           \* the directory xamarin/
    found_files,       \* the files the running loop has not yet taken
    svg_file,          \* the loop's file
    targets,           \* the inkscape calls still to make for svg_file
    hist,              \* the steps completed and commands run by this run
    startTree,         \* xamarin/ as it was when the run started
    arg,               \* a function called on its own: argument, result
    ret,
    op

pipeVars == << pc, runNo, fill_color, stroke_color, fill_color_hex,
               stroke_color_hex, fg_color, comp_color, error, source, xamarin,
               found_files, svg_file, targets, hist, startTree >>

callVars == << arg, ret, op >>

vars == << pc, runNo, fill_color, stroke_color, fill_color_hex,
           stroke_color_hex, fg_color, comp_color, error, source, xamarin,
           found_files, svg_file, targets, hist, startTree, arg, ret, op >>

NoOut == [dir |-> "", name |-> << >>]

\* a step of generate_images that completed
StepEvent(name) ==
    [ev |-> name, src |-> << >>, w |-> 0, h |-> 0, out |-> NoOut, ok |-> TRUE]

\* one inkscape command, and whether it exited 0
CallEvent(platform, file, t, ok) ==
    [ev |-> platform, src |-> file, w |-> t.w, h |-> t.h, out |-> t.out, ok |-> ok]

IsCall(e) == e.ev \in { "inkscape_ios", "inkscape_android" }

\* before any run: no xamarin/ yet
PipeIdle ==
    /\ pc = "idle"
    /\ runNo = 0
    /\ fill_color = << >>
    /\ stroke_color = << >>
    /\ fill_color_hex = << >>
    /\ stroke_color_hex = << >>
    /\ fg_color = ""
    /\ comp_color = << >>
    /\ error = "none"
    /\ xamarin = Absent
    /\ found_files = {}
    /\ svg_file = << >>
    /\ targets = << >>
    /\ hist = << >>
    /\ startTree = Absent

NoCall ==
    /\ arg = << >>
    /\ ret = Return(<< >>)
    /\ op = "none"

Init ==
    /\ PipeIdle
    /\ NoCall
    /\ source \in SourceDirs

(***************************************************************************)
(* The pipeline: main -> generate_images.                                  *)
(***************************************************************************)
\* an exception leaves generate_images: the process exits non-zero
Fail(e) ==
    /\ pc' = "failed"
    /\ error' = e

\* the source trees one change away: a file added, or a file removed
SourceEdits(src) ==
    IF ~src.exists THEN { src }
    ELSE LET have == DOMAIN src.files
         IN  { src }
             \cup { SourceDir(have \cup { p }) :
                      p \in { q \in SourcePaths \ have :
                                 Cardinality(have) < MaxIcons } }
             \cup { SourceDir(have \ { p }) : p \in have }

\* the script is started with its two arguments, on a source tree that may
\* have changed since the run before
Start(f, s, src) ==
    /\ pc \in { "idle", "done", "failed" }
    /\ runNo < MaxRuns
    /\ source' = src
    /\ pc' = after_step("start")
    /\ runNo' = runNo + 1
    /\ fill_color' = f
    /\ stroke_color' = s
    /\ fill_color_hex' = << >>
    /\ stroke_color_hex' = << >>
    /\ fg_color' = ""
    /\ comp_color' = << >>
    /\ error' = "none"
    /\ found_files' = {}
    /\ svg_file' = << >>
    /\ targets' = << >>
    /\ hist' = << >>
    /\ startTree' = xamarin
    /\ UNCHANGED << xamarin, arg, ret, op >>

\* fill_color_hex = parse_color(fill_color)
ResolveFill ==
    /\ pc = "resolve_fill"
    /\ LET r == parse_color(fill_color)
       IN  IF r.ok
           THEN /\ fill_color_hex' = r.val
                /\ pc' = after_step("resolve_fill")
                /\ hist' = Append(hist, StepEvent("resolve_fill"))
                /\ UNCHANGED error
           ELSE /\ Fail(r.exc)
                /\ UNCHANGED << fill_color_hex, hist >>
    /\ UNCHANGED << runNo, fill_color, stroke_color, stroke_color_hex,
                    fg_color, comp_color, source, xamarin, found_files,
                    svg_file, targets, startTree, arg, ret, op >>

\* stroke_color_hex = parse_color(stroke_color)
ResolveStroke ==
    /\ pc = "resolve_stroke"
    /\ LET r == parse_color(stroke_color)
       IN  IF r.ok
           THEN /\ stroke_color_hex' = r.val
                /\ pc' = after_step("resolve_stroke")
                /\ hist' = Append(hist, StepEvent("resolve_stroke"))
                /\ UNCHANGED error
           ELSE /\ Fail(r.exc)
                /\ UNCHANGED << stroke_color_hex, hist >>
    /\ UNCHANGED << runNo, fill_color, stroke_color, fill_color_hex,
                    fg_color, comp_color, source, xamarin, found_files,
                    svg_file, targets, startTree, arg, ret, op >>

\* fg_color, comp_color and the "Color selected" lines
Report ==
    /\ pc = "report"
    /\ LET bright == color_too_bright(fill_color)
           comp == get_complementary_color(fill_color_hex)
       IN  IF ~bright.ok
           THEN /\ Fail(bright.exc)
                /\ UNCHANGED << fg_color, comp_color, hist >>
           ELSE IF ~comp.ok
           THEN /\ Fail(comp.exc)
                /\ fg_color' = (IF bright.val THEN "black" ELSE "white")
                /\ UNCHANGED << comp_color, hist >>
           ELSE /\ fg_color' = (IF bright.val THEN "black" ELSE "white")
                /\ comp_color' = comp.val
                /\ pc' = after_step("report")
                /\ hist' = Append(hist, StepEvent("report"))
                /\ UNCHANGED error
    /\ UNCHANGED << runNo, fill_color, stroke_color, fill_color_hex,
                    stroke_color_hex, source, xamarin, found_files, svg_file,
                    targets, startTree, arg, ret, op >>

\* cleanup()
Cleanup ==
    /\ pc = "cleanup"
    /\ xamarin' = cleanup(xamarin)
    /\ pc' = after_step("cleanup")
    /\ hist' = Append(hist, StepEvent("cleanup"))
    /\ UNCHANGED << runNo, fill_color, stroke_color, fill_color_hex,
                    stroke_color_hex, fg_color, comp_color, error, source,
                    found_files, svg_file, targets, startTree, arg, ret, op >>

\* copy_svg_to_xamarin(); cp fails when svg/ is missing, after xamarin/ was made
CopySvg ==
    /\ pc = "copy"
    /\ IF source.exists
       THEN /\ xamarin' = copy_svg_to_xamarin(xamarin, source, runNo)
            /\ pc' = after_command(TRUE, after_step("copy"))
            /\ hist' = Append(hist, StepEvent("copy"))
            /\ UNCHANGED error
       ELSE /\ xamarin' = get_xamarin_directory(xamarin)
            /\ pc' = after_command(FALSE, after_step("copy"))
            /\ error' = "ErrorReturnCode"
            /\ UNCHANGED hist
    /\ UNCHANGED << runNo, fill_color, stroke_color, fill_color_hex,
                    stroke_color_hex, fg_color, comp_color, source,
                    found_files, svg_file, targets, startTree, arg, ret, op >>

\* replace_color_on_svgs(fill_color_hex, stroke_color_hex); find fails when
\* xamarin/svg is missing
Recolor ==
    /\ pc = "recolor"
    /\ IF "svg" \in xamarin.dirs
       THEN /\ xamarin' = replace_color_on_svgs(xamarin, fill_color_hex,
                                                stroke_color_hex)
            /\ pc' = after_command(TRUE, after_step("recolor"))
            /\ hist' = Append(hist, StepEvent("recolor"))
            /\ UNCHANGED error
       ELSE /\ xamarin' = get_xamarin_directory(xamarin)
            /\ pc' = after_command(FALSE, after_step("recolor"))
            /\ error' = "ErrorReturnCode"
            /\ UNCHANGED hist
    /\ UNCHANGED << runNo, fill_color, stroke_color, fill_color_hex,
                    stroke_color_hex, fg_color, comp_color, source,
                    found_files, svg_file, targets, startTree, arg, ret, op >>

\* create_ios_images() up to its loop: xamarin/ios is made, the files found
IosBegin ==
    /\ pc = "ios"
    /\ xamarin' = [get_xamarin_directory(xamarin) EXCEPT !.dirs = @ \cup { "ios" }]
    /\ found_files' = find_svg(xamarin)
    /\ pc' = "ios_loop"
    /\ hist' = Append(hist, StepEvent("ios"))
    /\ UNCHANGED << runNo, fill_color, stroke_color, fill_color_hex,
                    stroke_color_hex, fg_color, comp_color, error, source,
                    svg_file, targets, startTree, arg, ret, op >>

\* for svg_file in progress: the loop takes its next file and names its PNGs
IosNext ==
    /\ pc = "ios_loop"
    /\ \E f \in found_files :
          /\ svg_file' = f
          /\ found_files' = found_files \ { f }
    /\ targets' = ios_targets(svg_file')
    /\ pc' = "ios_raster"
    /\ UNCHANGED << runNo, fill_color, stroke_color, fill_color_hex,
                    stroke_color_hex, fg_color, comp_color, error, source,
                    xamarin, hist, startTree, arg, ret, op >>

\* the next inkscape call of the iOS loop; ok is whether inkscape exits 0
IosRaster(ok) ==
    /\ pc = "ios_raster"
    /\ LET t == Head(targets)
           next == IF Len(targets) = 1 THEN "ios_loop" ELSE "ios_raster"
       IN  /\ hist' = Append(hist, CallEvent("inkscape_ios", svg_file, t, ok))
           /\ xamarin' = (IF ok THEN inkscape(xamarin, svg_file, t, runNo)
                          ELSE xamarin)
           /\ pc' = after_command(ok, next)
           /\ error' = (IF ok THEN error ELSE "ErrorReturnCode")
           /\ targets' = (IF ok THEN Tail(targets) ELSE targets)
    /\ UNCHANGED << runNo, fill_color, stroke_color, fill_color_hex,
                    stroke_color_hex, fg_color, comp_color, source,
                    found_files, svg_file, startTree, arg, ret, op >>

\* the iOS loop is over: "done." is printed
IosDone ==
    /\ pc = "ios_loop"
    /\ found_files = {}
    /\ pc' = after_step("ios")
    /\ hist' = Append(hist, StepEvent("ios_done"))
    /\ UNCHANGED << runNo, fill_color, stroke_color, fill_color_hex,
                    stroke_color_hex, fg_color, comp_color, error, source,
                    xamarin, found_files, svg_file, targets, startTree, arg, ret,
                    op >>

\* create_android_images() up to its loop: the directories are made, the
\* files found
AndroidBegin ==
    /\ pc = "android"
    /\ xamarin' = [get_xamarin_directory(xamarin) EXCEPT
                      !.dirs = @ \cup AndroidDirs]
    /\ found_files' = find_svg(xamarin)
    /\ pc' = "android_loop"
    /\ hist' = Append(hist, StepEvent("android"))
    /\ UNCHANGED << runNo, fill_color, stroke_color, fill_color_hex,
                    stroke_color_hex, fg_color, comp_color, error, source,
                    svg_file, targets, startTree, arg, ret, op >>

AndroidNext ==
    /\ pc = "android_loop"
    /\ \E f \in found_files :
          /\ svg_file' = f
          /\ found_files' = found_files \ { f }
    /\ targets' = android_targets(svg_file')
    /\ pc' = "android_raster"
    /\ UNCHANGED << runNo, fill_color, stroke_color, fill_color_hex,
                    stroke_color_hex, fg_color, comp_color, error, source,
                    xamarin, hist, startTree, arg, ret, op >>

\* one inkscape call of the Android loop
AndroidRaster(ok) ==
    /\ pc = "android_raster"
    /\ LET t == Head(targets)
           next == IF Len(targets) = 1 THEN "android_loop"
                   ELSE "android_raster"
       IN  /\ hist' = Append(hist, CallEvent("inkscape_android", svg_file, t, ok))
           /\ xamarin' = (IF ok THEN inkscape(xamarin, svg_file, t, runNo)
                          ELSE xamarin)
           /\ pc' = after_command(ok, next)
           /\ error' = (IF ok THEN error ELSE "ErrorReturnCode")
           /\ targets' = (IF ok THEN Tail(targets) ELSE targets)
    /\ UNCHANGED << runNo, fill_color, stroke_color, fill_color_hex,
                    stroke_color_hex, fg_color, comp_color, source,
                    found_files, svg_file, startTree, arg, ret, op >>

\* the Android loop is over: "done." is printed and the script exits 0
AndroidDone ==
    /\ pc = "android_loop"
    /\ found_files = {}
    /\ pc' = after_step("android")
    /\ hist' = Append(hist, StepEvent("android_done"))
    /\ UNCHANGED << runNo, fill_color, stroke_color, fill_color_hex,
                    stroke_color_hex, fg_color, comp_color, error, source,
                    xamarin, found_files, svg_file, targets, startTree, arg, ret,
                    op >>

Next ==
    \/ \E a \in RunArgs, src \in SourceEdits(source) : Start(a[1], a[2], src)
    \/ ResolveFill
    \/ ResolveStroke
    \/ Report
    \/ Cleanup
    \/ CopySvg
    \/ Recolor
    \/ IosBegin
    \/ IosNext
    \/ \E ok \in BOOLEAN : IosRaster(ok)
    \/ IosDone
    \/ AndroidBegin
    \/ AndroidNext
    \/ \E ok \in BOOLEAN : AndroidRaster(ok)
    \/ AndroidDone

Spec == Init /\ [][Next]_vars

(***************************************************************************)
(* The colour functions called on their own, on every argument of          *)
(* ColorStrings.                                                           *)
(***************************************************************************)
\* the characters tried after "#": a digit, a lower-case and an upper-case
\* hexadecimal letter, and a letter that is no hexadecimal digit
HexSample == { "0", "a", "F", "g" }

\* every text of at most n characters of the set
TextsUpTo(chars, n) == UNION { [1..k -> chars] : k \in 0..n }

ColorStrings ==
    ColorNames \cup { << "#" >> \o h : h \in TextsUpTo(HexSample, MaxHexLen) }

InitColor ==
    /\ PipeIdle
    /\ source = NoDir
    /\ arg \in ColorStrings
    /\ ret = Return(<< >>)
    /\ op = "none"

CallParseColor ==
    /\ op = "none"
    /\ ret' = parse_color(arg)
    /\ op' = "parse_color"
    /\ UNCHANGED << pipeVars, arg >>

CallComplement ==
    /\ op = "none"
    /\ ret' = get_complementary_color(arg)
    /\ op' = "get_complementary_color"
    /\ UNCHANGED << pipeVars, arg >>

\* the complement of the complement just returned
CallComplementAgain ==
    /\ op = "get_complementary_color"
    /\ ret.ok
    /\ ret' = get_complementary_color(ret.val)
    /\ op' = "complement_twice"
    /\ UNCHANGED << pipeVars, arg >>

CallTooBright ==
    /\ op = "none"
    /\ ret' = color_too_bright(arg)
    /\ op' = "color_too_bright"
    /\ UNCHANGED << pipeVars, arg >>

NextColor ==
    \/ CallParseColor
    \/ CallComplement
    \/ CallComplementAgain
    \/ CallTooBright

SpecColor == InitColor /\ [][NextColor]_vars

(***************************************************************************)
(* replace_color_on_svgs called on its own, on a copied tree of one SVG    *)
(* and one other file, each holding a text assembled from Chunks.          *)
(***************************************************************************)
FillBlack == FillEq \o Quoted(Black)

StrokeBlack == StrokeEq \o Quoted(Black)

Chunks ==
    { FillBlack, StrokeBlack, FillEq, StrokeEq, Quoted(Black), << " " >>,
      << "F" >> \o Tail(FillBlack), FillEq \o << "'" >> \o Black \o << "'" >> }

RECURSIVE Concat(_)
Concat(seqs) == IF seqs = << >> THEN << >> ELSE Head(seqs) \o Concat(Tail(seqs))

SvgTexts == { Concat(cs) : cs \in TextsUpTo(Chunks, MaxChunks) }

\* the resolved colours tried: of a name, of "#..." arguments
FillHexes == { cnames[Red], HashGreen }

StrokeHexes == { cnames[Gold], cnames[Black], HashShort }

CopiedTree(text) ==
    [exists |-> TRUE, dirs |-> { "svg" }, png |-> << >>,
     svg |-> [p \in { OutlineStar, Notes } |-> [text |-> text, run |-> 1]]]

InitSed ==
    /\ pc = "idle"
    /\ runNo = 1
    /\ fill_color = << >>
    /\ stroke_color = << >>
    /\ fill_color_hex \in FillHexes
    /\ stroke_color_hex \in StrokeHexes
    /\ fg_color = ""
    /\ comp_color = << >>
    /\ error = "none"
    /\ source = NoDir
    /\ \E t \in SvgTexts : xamarin = CopiedTree(t)
    /\ found_files = {}
    /\ svg_file = << >>
    /\ targets = << >>
    /\ hist = << >>
    /\ startTree = xamarin
    /\ NoCall

CallReplaceColor ==
    /\ op = "none"
    /\ xamarin' = replace_color_on_svgs(xamarin, fill_color_hex, stroke_color_hex)
    /\ op' = "replace_color_on_svgs"
    /\ UNCHANGED << pc, runNo, fill_color, stroke_color, fill_color_hex,
                    stroke_color_hex, fg_color, comp_color, error, source,
                    found_files, svg_file, targets, hist, startTree, arg, ret >>

NextSed == CallReplaceColor

SpecSed == InitSed /\ [][NextSed]_vars

(***************************************************************************)
(* Properties.                                                             *)
(***************************************************************************)
\* "#" followed by exactly six hexadecimal digits
IsHashHex6(t) ==
    /\ Len(t) = 7
    /\ t[1] = "#"
    /\ \A i \in 2..7 : IsHexDigit(t[i])

\* t with its hexadecimal letters in upper case
UpperCased(t) ==
    [i \in 1..Len(t) |-> IF IsHexDigit(t[i]) THEN HexUpper[HexVal(t[i]) + 1]
                         ELSE t[i]]

\* a name, not a "#..." text, that the colour table does not hold
UnknownName(c) == ~StartsWith(c, << "#" >>) /\ c \notin DOMAIN cnames

\* the order the run is documented to follow
Rank(e) ==
    CASE e.ev = "resolve_fill" -> 1
      [] e.ev = "resolve_stroke" -> 2
      [] e.ev = "report" -> 3
      [] e.ev = "cleanup" -> 4
      [] e.ev = "copy" -> 5
      [] e.ev = "recolor" -> 6
      [] e.ev = "ios" -> 7
      [] e.ev = "inkscape_ios" -> 8
      [] e.ev = "ios_done" -> 9
      [] e.ev = "android" -> 10
      [] e.ev = "inkscape_android" -> 11
      [] e.ev = "android_done" -> 12

\* what must have completed before an event of the given rank
Before(r) ==
    CASE r = 9 -> 7
      [] r = 10 -> 9
      [] r = 12 -> 10
      [] OTHER -> r - 1

\* C1: within a run the steps happen in the order resolve colours, cleanup,
\* copy, recolour, iOS rasterisations, Android rasterisations; each step at
\* most once and only after the step before it has completed.  hist only
\* grows by one event at its end, so it is stated of the latest event
\* against all the earlier ones.
C1_StepsInOrder ==
    hist # << >> =>
        LET last == hist[Len(hist)]
        IN  /\ \A i \in 1..(Len(hist) - 1) :
                  /\ Rank(hist[i]) <= Rank(last)
                  /\ (Rank(hist[i]) = Rank(last) => IsCall(last))
            /\ Rank(last) > 1 =>
                  \E i \in 1..(Len(hist) - 1) :
                      Rank(hist[i]) = Before(Rank(last))

C1_Witness ==
    /\ pc = "done"
    /\ \E i, j \in DOMAIN hist :
          hist[i].ev = "inkscape_ios" /\ hist[j].ev = "inkscape_android"

\* C2: when a run has succeeded, every file of xamarin/ was written by that
\* run, and xamarin/svg holds exactly the files of the source tree.
C2_NothingStale ==
    pc = "done" =>
        /\ \A p \in DOMAIN xamarin.svg : xamarin.svg[p].run = runNo
        /\ \A o \in DOMAIN xamarin.png : xamarin.png[o].run = runNo
        /\ DOMAIN xamarin.svg = DOMAIN source.files

\* a second run succeeded, and a PNG the tree held when it started is gone
C2_Witness ==
    /\ pc = "done"
    /\ runNo = 2
    /\ \E o \in DOMAIN startTree.png : o \notin DOMAIN xamarin.png

\* C3: a run given a fill or stroke name that is not in the colour table
\* ends with the invalid-colour error before cleanup, copy, recolouring or
\* any rasterisation, and leaves xamarin/ as it was when the run started.
C3_InvalidColorTouchesNothing ==
    (runNo > 0 /\ (UnknownName(fill_color) \/ UnknownName(stroke_color))) =>
        /\ pc \in { "resolve_fill", "resolve_stroke", "failed" }
        /\ pc = "failed" => error = "GenerationError"
        /\ xamarin = startTree
        /\ \A i \in DOMAIN hist : Rank(hist[i]) <= 2

C3_Witness ==
    /\ pc = "failed"
    /\ error = "GenerationError"
    /\ UnknownName(stroke_color)
    /\ DOMAIN startTree.png # {}
    /\ xamarin = startTree

\* C4: once an inkscape command has failed, no other command is run and no
\* further step completes in that run; the run has ended in failure.
C4_FailureStopsRun ==
    \A i \in DOMAIN hist :
        (IsCall(hist[i]) /\ ~hist[i].ok) =>
            /\ i = Len(hist)
            /\ pc = "failed"
            /\ error = "ErrorReturnCode"

\* an iOS command failed with sizes of the file and other files still to do
C4_Witness ==
    /\ pc = "failed"
    /\ hist # << >>
    /\ hist[Len(hist)].ev = "inkscape_ios"
    /\ ~hist[Len(hist)].ok
    /\ Len(targets) > 1
    /\ found_files # {}

\* the path under xamarin/svg of a file that find returned
UnderSvg(file) == SubSeq(file, Len(SvgDir) + 2, Len(file))

\* the file lies in a directory named "filled"
UnderFilledDir(rel) ==
    Contains(<< "/" >> \o rel,
             << "/", "f", "i", "l", "l", "e", "d", "/" >>)

\* the commands run on one file, as the set of their sizes and outputs
CallsOf(file) ==
    { [w |-> hist[i].w, h |-> hist[i].h, out |-> hist[i].out] :
        i \in { k \in DOMAIN hist : IsCall(hist[k]) /\ hist[k].src = file } }

NumCallsOf(file) ==
    Cardinality({ k \in DOMAIN hist : IsCall(hist[k]) /\ hist[k].src = file })

\* the eight rasterisations documented for an icon of base name b
EightTargets(b) ==
    { Target(24, 24, "ios", b \o DotPng),
      Target(48, 48, "ios", b \o At2x \o DotPng),
      Target(72, 72, "ios", b \o At3x \o DotPng),
      Target(60, 60, "android/drawable", b \o DotPng),
      Target(48, 48, "android/drawable-hdpi", b \o DotPng),
      Target(64, 64, "android/drawable-xhdpi", b \o DotPng),
      Target(96, 96, "android/drawable-xxhdpi", b \o DotPng),
      Target(128, 128, "android/drawable-xxxhdpi", b \o DotPng) }

\* C5: a successful run rasterises every SVG that is not under a "filled"
\* directory exactly eight times: to the three iOS and the five Android
\* files named by its base name, each at its documented square size.
C5_EightRasterisations ==
    pc = "done" =>
        \A p \in { q \in DOMAIN xamarin.svg : IsSvgName(q) /\ ~UnderFilledDir(q) } :
            /\ NumCallsOf(Join(SvgDir, p)) = 8
            /\ CallsOf(Join(SvgDir, p)) = EightTargets(no_ext_filename(p))

\* the file name without its trailing ".svg"
WithoutExtension(name) ==
    IF EndsWith(name, DotSvg) THEN SubSeq(name, 1, Len(name) - Len(DotSvg))
    ELSE name

\* the base name documented for an icon
DocumentedBase(rel) ==
    (IF UnderFilledDir(rel) THEN FilledPrefix ELSE << >>)
    \o Replace(WithoutExtension(Basename(rel)), << "-" >>, << "_" >>)

\* C6: both exporters name an icon's files by the same base name: the file
\* name without its trailing ".svg", hyphens replaced by underscores, with
\* the prefix "filled_" exactly when the icon is under a "filled" directory.
C6_SameBaseName ==
    \A i \in DOMAIN hist :
        IsCall(hist[i]) =>
            LET b == DocumentedBase(UnderSvg(hist[i].src))
            IN  IF hist[i].ev = "inkscape_ios"
                THEN hist[i].out.name \in
                        { b \o DotPng, b \o At2x \o DotPng, b \o At3x \o DotPng }
                ELSE hist[i].out.name = b \o DotPng

\* C10: no two commands of a run write the same file, so a successful run
\* over N icons leaves 3N files in ios/ and N in each Android directory.
C10_NoOverwrite ==
    /\ \A i, j \in DOMAIN hist :
          (i < j /\ IsCall(hist[i]) /\ hist[i].ok /\ IsCall(hist[j]) /\ hist[j].ok)
              => hist[i].out # hist[j].out
    /\ pc = "done" =>
          LET n == Cardinality({ q \in DOMAIN xamarin.svg : IsSvgName(q) })
          IN  /\ Cardinality({ o \in DOMAIN xamarin.png : o.dir = "ios" }) = 3 * n
              /\ \A d \in AndroidDirs \ { "android" } :
                    Cardinality({ o \in DOMAIN xamarin.png : o.dir = d }) = n

\* C7 as stated: whatever parse_color returns is "#" and six hexadecimal
\* digits.
C7_AlwaysHashHex6 ==
    (op = "parse_color" /\ ret.ok) => IsHashHex6(ret.val)

\* C7 amended: parse_color returns "#" and six hexadecimal digits for every
\* name of the colour table and fails for every other name; a text that
\* starts with "#" is returned as it is, whatever follows the "#".
C7_NamedColorsAreHashHex6 ==
    op = "parse_color" =>
        IF StartsWith(arg, << "#" >>) THEN ret.ok /\ ret.val = arg
        ELSE IF UnknownName(arg) THEN ~ret.ok /\ ret.exc = "GenerationError"
        ELSE ret.ok /\ IsHashHex6(ret.val)

C7_Witness ==
    /\ op = "parse_color"
    /\ arg = Gold
    /\ ret.ok
    /\ IsHashHex6(ret.val)

\* C8 as stated: the complement of the complement of "#" and six
\* hexadecimal digits, in either case, is the text itself.
C8_DoubleComplementIsIdentity ==
    (op = "complement_twice" /\ IsHashHex6(arg)) => ret.ok /\ ret.val = arg

\* C8 amended: the complement of the complement of "#" and six hexadecimal
\* digits is that text with its letters in upper case (the text itself when
\* it has no lower-case letter).
C8_DoubleComplementIsUpperCased ==
    (op = "complement_twice" /\ IsHashHex6(arg)) =>
        ret.ok /\ ret.val = UpperCased(arg)

\* a colour with a lower-case and an upper-case letter went through twice
C8_Witness ==
    /\ op = "complement_twice"
    /\ IsHashHex6(arg)
    /\ \E i, j \in 2..7 : arg[i] = "a" /\ arg[j] = "F"
    /\ ret.val # arg

\* the positions of a text where pat occurs
Occurrences(text, pat) == { i \in 1..Len(text) : OccursAt(text, pat, i) }

\* new is old with every fill="black" and stroke="black" replaced, in
\* place, by the attribute with the given colour: the replaced attributes
\* sit where the old ones sat (moved by the lengths that changed before
\* them), every other character is kept, and no fill="black" or
\* stroke="black" is left
RecoloredAs(old, new, fill_hex, stroke_hex) ==
    LET fills == Occurrences(old, FillBlack)
        strokes == Occurrences(old, StrokeBlack)
        shift(i) ==
            ((Len(fill_hex) - Len(Black)) * Cardinality({ j \in fills : j < i }))
            + ((Len(stroke_hex) - Len(Black))
                   * Cardinality({ j \in strokes : j < i }))
        replaced(i) ==
            \/ \E j \in fills : j <= i /\ i < j + Len(FillBlack)
            \/ \E j \in strokes : j <= i /\ i < j + Len(StrokeBlack)
    IN  /\ Len(new) = Len(old) + shift(Len(old) + 1)
        /\ \A i \in 1..Len(old) : ~replaced(i) => new[i + shift(i)] = old[i]
        /\ \A j \in fills :
              OccursAt(new, FillEq \o Quoted(fill_hex), j + shift(j))
        /\ \A j \in strokes :
              OccursAt(new, StrokeEq \o Quoted(stroke_hex), j + shift(j))
        /\ Occurrences(new, FillBlack) = {}
        /\ Occurrences(new, StrokeBlack) = {}

\* C9: after replace_color_on_svgs(F, S) every SVG of the copied tree has
\* each fill="black" replaced by fill="F" and each stroke="black" by
\* stroke="S", none is left, and everything else (the rest of each SVG, the
\* files that are no SVG, the set of files) is unchanged.
C9_EveryBlackRecolored ==
    op = "replace_color_on_svgs" =>
        /\ DOMAIN xamarin.svg = DOMAIN startTree.svg
        /\ xamarin.png = startTree.png
        /\ \A p \in DOMAIN startTree.svg :
              IF EndsWith(p, DotSvg)
              THEN RecoloredAs(startTree.svg[p].text, xamarin.svg[p].text,
                               fill_color_hex, stroke_color_hex)
              ELSE xamarin.svg[p].text = startTree.svg[p].text

\* an SVG with two fill="black" and a stroke="black" was recoloured
C9_Witness ==
    /\ op = "replace_color_on_svgs"
    /\ Cardinality(Occurrences(startTree.svg[OutlineStar].text, FillBlack)) = 2
    /\ Cardinality(Occurrences(startTree.svg[OutlineStar].text, StrokeBlack)) = 1
    /\ xamarin.svg[OutlineStar].text # startTree.svg[OutlineStar].text

====
